---- MODULE Spec2Model ----
(***************************************************************************)
(* Vector3 (src/src/lib.rs): a three-component f64 vector with arithmetic, *)
(* geometric and big-endian byte (de)serialization operations.             *)
(*                                                                         *)
(* An f64 is modelled by its IEEE-754 binary64 bit fields                  *)
(*   [s |-> sign bit, e |-> 11-bit biased exponent, m |-> 52-bit fraction] *)
(* and every f64 operation of the source (+ - * / sqrt round ==) is        *)
(* computed bit-exactly, with round-to-nearest-even.  Numbers wider than   *)
(* the integers of TLC    (the fraction, products of significands) are     *)
(* held as little-endian sequences of limbs in base 2^13 without leading   *)
(* zero limbs ("naturals" below); <<>> is zero.                            *)
(***************************************************************************)
EXTENDS Integers, Sequences, FiniteSets, TLC

VARIABLES a, b, op, ret

vars == <<a, b, op, ret>>

-----------------------------------------------------------------------------
(* Arbitrary-precision naturals *)

LimbBits == 12 + 1
Base == 2^LimbBits

Max(i, j) == IF i >= j THEN i ELSE j
Min(i, j) == IF i <= j THEN i ELSE j

Limb(n, i) == IF i <= Len(n) THEN n[i] ELSE 0

RECURSIVE Trim(_)
Trim(n) ==
    IF n = <<>> THEN n
    ELSE IF n[Len(n)] = 0 THEN Trim(SubSeq(n, 1, Len(n) - 1)) ELSE n

Nat1(k) == IF k = 0 THEN <<>> ELSE <<k>>

RECURSIVE AddFrom(_, _, _, _)
AddFrom(x, y, i, c) ==
    IF i > Max(Len(x), Len(y)) THEN Nat1(c)
    ELSE LET t == Limb(x, i) + Limb(y, i) + c
         IN  <<t % Base>> \o AddFrom(x, y, i + 1, t \div Base)

BAdd(x, y) == AddFrom(x, y, 1, 0)

RECURSIVE SubFrom(_, _, _, _)
SubFrom(x, y, i, c) ==
    IF i > Len(x) THEN <<>>
    ELSE LET t == Limb(x, i) - Limb(y, i) - c
         IN  IF t < 0 THEN <<t + Base>> \o SubFrom(x, y, i + 1, 1)
             ELSE <<t>> \o SubFrom(x, y, i + 1, 0)

\* x - y for x >= y
BSub(x, y) == Trim(SubFrom(x, y, 1, 0))

RECURSIVE CmpFrom(_, _, _)
CmpFrom(x, y, i) ==
    IF i = 0 THEN 0
    ELSE IF x[i] > y[i] THEN 1
    ELSE IF x[i] < y[i] THEN -1
    ELSE CmpFrom(x, y, i - 1)

\* -1, 0, 1 as x < y, x = y, x > y
BCmp(x, y) ==
    IF Len(x) > Len(y) THEN 1
    ELSE IF Len(x) < Len(y) THEN -1
    ELSE CmpFrom(x, y, Len(x))

RECURSIVE MulSmallFrom(_, _, _, _)
MulSmallFrom(x, k, i, c) ==
    IF i > Len(x) THEN Nat1(c)
    ELSE LET t == x[i] * k + c
         IN  <<t % Base>> \o MulSmallFrom(x, k, i + 1, t \div Base)

\* x * k for 0 <= k < Base
BMulSmall(x, k) == IF k = 0 THEN <<>> ELSE MulSmallFrom(x, k, 1, 0)

RECURSIVE Zeros(_)
Zeros(k) == IF k = 0 THEN <<>> ELSE <<0>> \o Zeros(k - 1)

RECURSIVE MulFrom(_, _, _)
MulFrom(x, y, i) ==
    IF i > Len(y) THEN <<>>
    ELSE LET p == BMulSmall(x, y[i])
             r == MulFrom(x, y, i + 1)
         IN  BAdd(IF p = <<>> THEN p ELSE Zeros(i - 1) \o p, r)

BMul(x, y) == IF x = <<>> \/ y = <<>> THEN <<>> ELSE MulFrom(x, y, 1)

\* x * 2^k
BShl(x, k) ==
    IF x = <<>> THEN x
    ELSE Zeros(k \div LimbBits) \o BMulSmall(x, 2^(k % LimbBits))

RECURSIVE ShrFrom(_, _, _, _)
ShrFrom(x, i, lo, hi) ==
    IF i > Len(x) THEN <<>>
    ELSE <<(x[i] \div lo) + (Limb(x, i + 1) % lo) * hi>>
         \o ShrFrom(x, i + 1, lo, hi)

\* floor(x / 2^k)
BShr(x, k) ==
    LET q == k \div LimbBits
        r == k % LimbBits
    IN  IF q >= Len(x) THEN <<>>
        ELSE Trim(ShrFrom(x, q + 1, 2^r, 2^(LimbBits - r)))

RECURSIVE SmallBitLen(_)
SmallBitLen(k) == IF k = 0 THEN 0 ELSE 1 + SmallBitLen(k \div 2)

BitLen(x) ==
    IF x = <<>> THEN 0 ELSE (Len(x) - 1) * LimbBits + SmallBitLen(x[Len(x)])

\* bit k (bit 0 is the least significant) of x
TestBit(x, k) == (Limb(x, k \div LimbBits + 1) \div 2^(k % LimbBits)) % 2

\* whether x mod 2^k is not zero
LowNonzero(x, k) ==
    \/ \E i \in 1..Min(k \div LimbBits, Len(x)) : x[i] # 0
    \/ Limb(x, k \div LimbBits + 1) % 2^(k % LimbBits) # 0

\* the low k bits of x
BLow(x, k) == BSub(x, BShl(BShr(x, k), k))

\* the largest t < 2^(k+1) + t0 with t * y <= x, given t0 * y <= x, trying
\* the bits k, k-1, ..., 0 in turn
RECURSIVE DigitFrom(_, _, _, _)
DigitFrom(x, y, t0, k) ==
    IF k < 0 THEN t0
    ELSE IF BCmp(BMulSmall(y, t0 + 2^k), x) <= 0
         THEN DigitFrom(x, y, t0 + 2^k, k - 1)
         ELSE DigitFrom(x, y, t0, k - 1)

\* long division, one limb of the dividend at a time:
\* <<quotient limbs (untrimmed), remainder>> of (x div Base^(i-1)) by y
RECURSIVE DivFrom(_, _, _)
DivFrom(x, y, i) ==
    IF i > Len(x) THEN <<(<<>>), (<<>>)>>
    ELSE LET d == DivFrom(x, y, i + 1)
             cur == Trim(<<x[i]>> \o d[2])
             t == DigitFrom(cur, y, 0, LimbBits - 1)
         IN  <<(<<t>> \o d[1]), BSub(cur, BMulSmall(y, t))>>

\* <<floor(x / y), x mod y>> for y # 0
BDivMod(x, y) == LET d == DivFrom(x, y, 1) IN <<Trim(d[1]), d[2]>>

\* one step of the digit-by-digit integer square root on <<x, c, d>>:
\* x the remainder, c the root so far, d the current power of four
SqrtStep(st) ==
    LET t == BAdd(st[2], st[3])
    IN  IF BCmp(st[1], t) >= 0
        THEN <<BSub(st[1], t), BAdd(BShr(st[2], 1), st[3]), BShr(st[3], 2)>>
        ELSE <<st[1], BShr(st[2], 1), BShr(st[3], 2)>>

RECURSIVE SqrtSteps(_, _)
SqrtSteps(st, n) ==
    IF st[3] = <<>> \/ n = 0 THEN st
    ELSE LET prev == SqrtSteps(st, n - 1) IN SqrtStep(prev)

RECURSIVE SqrtRun(_, _)
SqrtRun(st, n) ==
    IF n <= LimbBits THEN SqrtSteps(st, n)
    ELSE LET prev == SqrtRun(st, n - LimbBits) IN SqrtSteps(prev, LimbBits)

\* <<floor(sqrt(x)), x - floor(sqrt(x))^2>>
BSqrtRem(x) ==
    IF x = <<>> THEN <<x, x>>
    ELSE LET h == (BitLen(x) - 1) \div 2
             st == SqrtRun(<<x, <<>>, BShl(<<1>>, 2 * h)>>, h + 1)
         IN  <<st[2], st[1]>>

-----------------------------------------------------------------------------
(* f64: IEEE-754 binary64 *)

MantBits == 52
ExpBias == 1023
ExpMax == 2047

\* the exponent of the least significant fraction bit of a subnormal
MinExp == 1 - ExpBias - MantBits

Hidden == BShl(<<1>>, MantBits)

F64(s, e, m) == [s |-> s, e |-> e, m |-> m]

Zero(s) == F64(s, 0, <<>>)
Inf(s) == F64(s, ExpMax, <<>>)
NaN == F64(0, ExpMax, BShl(<<1>>, MantBits - 1))

IsNaN(x) == x.e = ExpMax /\ x.m # <<>>
IsInf(x) == x.e = ExpMax /\ x.m = <<>>
IsZero(x) == x.e = 0 /\ x.m = <<>>
IsFinite(x) == x.e # ExpMax

Xor(s, t) == (s + t) % 2

\* a finite x is (-1)^x.s * Sig(x) * 2^Exp(x)
Sig(x) == IF x.e = 0 THEN x.m ELSE BAdd(x.m, Hidden)
Exp(x) == IF x.e = 0 THEN MinExp ELSE x.e - ExpBias - MantBits

\* the f64 of sign s and magnitude q * 2^ex, for q < 2^(MantBits + 2) with
\* either MantBits + 1 significant bits or ex = MinExp
Pack(s, q, ex) ==
    LET carry == BitLen(q) = MantBits + 2
        q2 == IF carry THEN BShr(q, 1) ELSE q
        e2 == IF carry THEN ex + 1 ELSE ex
    IN  IF BitLen(q2) <= MantBits THEN F64(s, 0, q2)
        ELSE IF e2 + ExpBias + MantBits >= ExpMax THEN Inf(s)
        ELSE F64(s, e2 + ExpBias + MantBits, BSub(q2, Hidden))

\* the f64 nearest to (-1)^s * (n + t) * 2^ex, ties to even, where n # 0 and
\* 0 < t < 1 if sticky, t = 0 if not (n has MantBits + 3 bits or more if sticky)
RoundPack(s, n, ex, sticky) ==
    LET ulp == Max(ex + BitLen(n) - (MantBits + 1), MinExp)
        sh == ulp - ex
    IN  IF sh <= 0 THEN Pack(s, BShl(n, 0 - sh), ulp)
        ELSE LET q == BShr(n, sh)
                 half == TestBit(n, sh - 1) = 1
                 rest == sticky \/ LowNonzero(n, sh - 1)
                 up == half /\ (rest \/ TestBit(q, 0) = 1)
             IN  Pack(s, IF up THEN BAdd(q, <<1>>) ELSE q, ulp)

FNeg(x) == F64(1 - x.s, x.e, x.m)
FAbs(x) == F64(0, x.e, x.m)

\* how far the smaller operand of a sum is shifted at most: beyond it, it
\* only decides the rounding direction
AlignMax == 2 * (MantBits + 4)

\* x + y for finite nonzero x, y with Exp(x) >= Exp(y)
AddOrdered(x, y) ==
    LET far == Exp(x) - Exp(y) > AlignMax
        ex == IF far THEN Exp(x) - AlignMax ELSE Exp(y)
        nx == BShl(Sig(x), Exp(x) - ex)
        ny == IF far THEN <<1>> ELSE Sig(y)
        c == BCmp(nx, ny)
    IN  IF x.s = y.s THEN RoundPack(x.s, BAdd(nx, ny), ex, FALSE)
        ELSE IF c = 0 THEN Zero(0)
        ELSE IF c > 0 THEN RoundPack(x.s, BSub(nx, ny), ex, FALSE)
        ELSE RoundPack(y.s, BSub(ny, nx), ex, FALSE)

\* f64 +
FAdd(x, y) ==
    IF IsNaN(x) \/ IsNaN(y) THEN NaN
    ELSE IF IsInf(x) THEN (IF IsInf(y) /\ x.s # y.s THEN NaN ELSE x)
    ELSE IF IsInf(y) THEN y
    ELSE IF IsZero(x) THEN (IF IsZero(y) THEN Zero(x.s * y.s) ELSE y)
    ELSE IF IsZero(y) THEN x
    ELSE IF Exp(x) >= Exp(y) THEN AddOrdered(x, y) ELSE AddOrdered(y, x)

\* f64 -
FSub(x, y) == IF IsNaN(y) THEN NaN ELSE FAdd(x, FNeg(y))

\* f64 *
FMul(x, y) ==
    IF IsNaN(x) \/ IsNaN(y) THEN NaN
    ELSE IF IsInf(x) \/ IsInf(y)
         THEN (IF IsZero(x) \/ IsZero(y) THEN NaN ELSE Inf(Xor(x.s, y.s)))
    ELSE IF IsZero(x) \/ IsZero(y) THEN Zero(Xor(x.s, y.s))
    ELSE RoundPack(Xor(x.s, y.s), BMul(Sig(x), Sig(y)), Exp(x) + Exp(y), FALSE)

\* f64 /
FDiv(x, y) ==
    IF IsNaN(x) \/ IsNaN(y) THEN NaN
    ELSE IF IsInf(x) THEN (IF IsInf(y) THEN NaN ELSE Inf(Xor(x.s, y.s)))
    ELSE IF IsInf(y) THEN Zero(Xor(x.s, y.s))
    ELSE IF IsZero(y) THEN (IF IsZero(x) THEN NaN ELSE Inf(Xor(x.s, y.s)))
    ELSE IF IsZero(x) THEN Zero(Xor(x.s, y.s))
    ELSE LET k == Max(0, MantBits + 4 + BitLen(Sig(y)) - BitLen(Sig(x)))
             d == BDivMod(BShl(Sig(x), k), Sig(y))
         IN  RoundPack(Xor(x.s, y.s), d[1], Exp(x) - Exp(y) - k, d[2] # <<>>)

\* libm::sqrt (correctly rounded)
FSqrt(x) ==
    IF IsNaN(x) THEN NaN
    ELSE IF IsZero(x) THEN x
    ELSE IF x.s = 1 THEN NaN
    ELSE IF IsInf(x) THEN x
    ELSE LET k0 == Max(0, 2 * (MantBits + 4) - BitLen(Sig(x)))
             k == k0 + ((Exp(x) - k0) % 2)
             r == BSqrtRem(BShl(Sig(x), k))
         IN  RoundPack(0, r[1], (Exp(x) - k) \div 2, r[2] # <<>>)

\* f64::round: to the nearest integer, halves away from zero
FRound(x) ==
    IF ~IsFinite(x) \/ IsZero(x) \/ Exp(x) >= 0 THEN x
    ELSE LET sh == 0 - Exp(x)
             q == BAdd(BShr(Sig(x), sh), Nat1(TestBit(Sig(x), sh - 1)))
         IN  IF q = <<>> THEN Zero(x.s) ELSE RoundPack(x.s, q, 0, FALSE)

\* f64 ==, !=
FEq(x, y) ==
    /\ ~IsNaN(x)
    /\ ~IsNaN(y)
    /\ \/ x = y
       \/ IsZero(x) /\ IsZero(y)
FNe(x, y) == ~FEq(x, y)

\* f64 <
FLt(x, y) ==
    /\ ~IsNaN(x)
    /\ ~IsNaN(y)
    /\ ~(IsZero(x) /\ IsZero(y))
    /\ IF x.s # y.s THEN x.s = 1
       ELSE LET c == IF x.e # y.e THEN (IF x.e < y.e THEN -1 ELSE 1)
                      ELSE BCmp(x.m, y.m)
            IN  IF x.s = 0 THEN c < 0 ELSE c > 0
FLe(x, y) == FLt(x, y) \/ FEq(x, y)

\* the f64 of an integer literal such as 4.0, for |k| < Base
Lit(k) ==
    IF k = 0 THEN Zero(0)
    ELSE IF k < 0 THEN RoundPack(1, <<0 - k>>, 0, FALSE)
    ELSE RoundPack(0, <<k>>, 0, FALSE)

\* the f64 of a decimal literal n / 10^d such as -4.3
Dec(n, d) == FDiv(Lit(n), Lit(10^d))

\* f64::to_bits: sign, exponent and fraction as one 64-bit natural
f64_to_bits(x) == BAdd(BShl(Nat1(x.s * (ExpMax + 1) + x.e), MantBits), x.m)

\* f64::from_bits
f64_from_bits(n) ==
    F64(TestBit(n, 63), Limb(BShr(n, MantBits), 1) % (ExpMax + 1), BLow(n, MantBits))

\* byte k of n, byte 0 the least significant
Byte(n, k) == Limb(BShr(n, 8 * k), 1) % 256

\* a wrong byte order: the least significant byte first
u64_to_le_bytes(n) ==
    <<Byte(n, 0), Byte(n, 1), Byte(n, 2), Byte(n, 3),
      Byte(n, 4), Byte(n, 5), Byte(n, 6), Byte(n, 7)>>

\* u64::to_be_bytes: the most significant byte first
u64_to_be_bytes(n) ==
    <<Byte(n, 7), Byte(n, 6), Byte(n, 5), Byte(n, 4),
      Byte(n, 3), Byte(n, 2), Byte(n, 1), Byte(n, 0)>>

\* u64::from_be_bytes
RECURSIVE u64_from_be_prefix(_, _)
u64_from_be_prefix(bytes, i) ==
    IF i = 0 THEN <<>>
    ELSE BAdd(BShl(u64_from_be_prefix(bytes, i - 1), 8), Nat1(bytes[i]))

u64_from_be_bytes(bytes) == u64_from_be_prefix(bytes, 8)

f64_to_be_bytes(x) == u64_to_be_bytes(f64_to_bits(x))
f64_from_be_bytes(bytes) == f64_from_bits(u64_from_be_bytes(bytes))

-----------------------------------------------------------------------------
(* Vector3 *)

Vector3(x, y, z) == [x |-> x, y |-> y, z |-> z]

new(x, y, z) == Vector3(x, y, z)

new_zero == Vector3(Zero(0), Zero(0), Zero(0))

\* [u8; 24]: the parameter type of from_be_bytes, the result type of to_be_bytes
VecBytes == 24

\* a wrong field order: y and z read from each other's bytes
from_be_bytes_swapped(bytes) ==
    Vector3(f64_from_be_bytes(SubSeq(bytes, 1, 8)),
            f64_from_be_bytes(SubSeq(bytes, 17, Len(bytes))),
            f64_from_be_bytes(SubSeq(bytes, 9, 16)))

from_be_bytes(bytes) ==
    Vector3(f64_from_be_bytes(SubSeq(bytes, 1, 8)),
            f64_from_be_bytes(SubSeq(bytes, 9, 16)),
            f64_from_be_bytes(SubSeq(bytes, 17, Len(bytes))))

to_be_bytes(self) ==
    f64_to_be_bytes(self.x) \o f64_to_be_bytes(self.y) \o f64_to_be_bytes(self.z)

\* impl Mul<Vector3> for f64
mul_f64_Vector3(self, rhs) ==
    Vector3(FMul(rhs.x, self), FMul(rhs.y, self), FMul(rhs.z, self))

\* impl Mul<f64> for Vector3
mul_Vector3_f64(self, rhs) ==
    Vector3(FMul(rhs, self.x), FMul(rhs, self.y), FMul(rhs, self.z))

\* impl Div<f64> for Vector3
div(self, d) == mul_Vector3_f64(self, FDiv(Lit(1), d))

\* a wrong dot product: the last term takes both factors from self
mul_Vector3_Vector3_self_z(self, rhs) ==
    FAdd(FAdd(FMul(self.x, rhs.x), FMul(self.y, rhs.y)), FMul(self.z, self.z))

\* impl Mul<Vector3> for Vector3: the dot product, an f64
mul_Vector3_Vector3(self, rhs) ==
    FAdd(FAdd(FMul(self.x, rhs.x), FMul(self.y, rhs.y)), FMul(self.z, rhs.z))

\* impl Add<Vector3> for Vector3
add(self, v2) ==
    Vector3(FAdd(self.x, v2.x), FAdd(self.y, v2.y), FAdd(self.z, v2.z))

\* impl Sub<Vector3> for Vector3
sub(self, v2) ==
    Vector3(FSub(self.x, v2.x), FSub(self.y, v2.y), FSub(self.z, v2.z))

\* impl PartialEq<Vector3> for Vector3
eq(self, v2) ==
    IF FNe(self.x, v2.x) THEN FALSE
    ELSE IF FNe(self.y, v2.y) THEN FALSE
    ELSE IF FNe(self.z, v2.z) THEN FALSE
    ELSE TRUE

magnitude(self) == FSqrt(mul_Vector3_Vector3(self, self))

sqr_magnitude(self) == mul_Vector3_Vector3(self, self)

\* the argument of libm::sqrt in normalize
normalize_radicand(self) ==
    FAdd(FAdd(FAdd(FMul(self.x, self.x), FMul(self.y, self.y)), self.z), self.z)

normalize(self) ==
    mul_f64_Vector3(FDiv(Lit(1), FSqrt(normalize_radicand(self))), self)

project_on(self, v) ==
    mul_Vector3_f64(v, FDiv(mul_Vector3_Vector3(self, v), mul_Vector3_Vector3(v, v)))

\* a wrong rejection: the projection added instead of subtracted
reject_from_added(self, v) == add(self, project_on(self, v))

reject_from(self, v) == sub(self, project_on(self, v))

\* a wrong cross product: a sum in the z component
cross_sum_z(self, v) ==
    new(FSub(FMul(self.y, v.z), FMul(self.z, v.y)),
        FSub(FMul(self.z, v.x), FMul(self.x, v.z)),
        FAdd(FMul(self.x, v.y), FMul(self.y, v.x)))

\* a wrong cross product: the y component negated
cross_negated_y(self, v) ==
    new(FSub(FMul(self.y, v.z), FMul(self.z, v.y)),
        FSub(FMul(self.x, v.z), FMul(self.z, v.x)),
        FSub(FMul(self.x, v.y), FMul(self.y, v.x)))

cross(self, v) ==
    new(FSub(FMul(self.y, v.z), FMul(self.z, v.y)),
        FSub(FMul(self.z, v.x), FMul(self.x, v.z)),
        FSub(FMul(self.x, v.y), FMul(self.y, v.x)))

-----------------------------------------------------------------------------
(* Inputs *)

\* integer-valued components range over -MaxInt..MaxInt
MaxInt == 2

IntF64s == {Lit(k) : k \in (0 - MaxInt)..MaxInt}

Cube(S) == {Vector3(x, y, z) : x \in S, y \in S, z \in S}

\* the vectors of the crate's tests
TestVectors ==
    { Vector3(Lit(4), Lit(4), Lit(4)),
      Vector3(Lit(4), Lit(4), Lit(0)),
      Vector3(Lit(1), Lit(2), Lit(0)),
      Vector3(Dec(15, 1), Dec(-43, 1), Dec(27, 1)),
      Vector3(Dec(15, 1), Dec(-43, 1), Dec(28, 1)),
      Vector3(Lit(10), Lit(5), Lit(0)),
      Vector3(Lit(5), Lit(0), Lit(0)),
      Vector3(Lit(3), Lit(-2), Lit(0)),
      Vector3(Lit(1), Lit(7), Lit(0)),
      Vector3(Lit(1), Lit(2), Lit(3)),
      Vector3(Lit(2), Lit(1), Lit(3)) }

\* the first operand of an arithmetic operation
AVectors == Cube(IntF64s) \cup TestVectors

\* the second operand
BVectors ==
    TestVectors \cup
    { new_zero,
      Vector3(Lit(0), Lit(0), Lit(1)),
      Vector3(Lit(1), Lit(1), Lit(1)),
      Vector3(Lit(-3), Lit(-3), Lit(2)),
      Vector3(Lit(-1), Lit(3), Lit(-2)) }

\* components for (de)serialization: every class of bit pattern
SpecialF64s ==
    { Zero(0), Zero(1), Inf(0), Inf(1), NaN,
      F64(1, ExpMax, <<1>>),                    \* a signalling NaN with a payload
      F64(0, 0, <<1>>),                         \* the least subnormal
      F64(0, ExpMax - 1, BSub(Hidden, <<1>>)),  \* the greatest finite f64
      F64(1, 1, <<0, 1, 2, 3>>),
      Lit(4), Dec(-43, 1), Dec(27, 1) }

ByteVectors == Cube(SpecialF64s \cup IntF64s)

Value(t, v) == [type |-> t, val |-> v]

-----------------------------------------------------------------------------
(* The operations.  Each is a pure function of the operands a (self) and b, *)
(* which no operation changes: a behaviour constructs the operands and     *)
(* applies one operation to them (and from_be_bytes to what to_be_bytes    *)
(* returned).                                                              *)

Return(name, t, v) ==
    /\ op' = name
    /\ ret' = Value(t, v)
    /\ UNCHANGED <<a, b>>

Apply(name, t, v) ==
    /\ op = "new"
    /\ Return(name, t, v)

ToBeBytes == Apply("to_be_bytes", "bytes", to_be_bytes(a))

\* applied to the array to_be_bytes returned; the parameter type [u8; 24]
\* admits no other length
FromBeBytes ==
    /\ op = "to_be_bytes"
    /\ Len(ret.val) = VecBytes
    /\ Return("from_be_bytes", "Vector3", from_be_bytes(ret.val))

Magnitude == Apply("magnitude", "f64", magnitude(a))

SqrMagnitude == Apply("sqr_magnitude", "f64", sqr_magnitude(a))

Normalize == Apply("normalize", "Vector3", normalize(a))

ProjectOn == Apply("project_on", "Vector3", project_on(a, b))

RejectFrom == Apply("reject_from", "Vector3", reject_from(a, b))

Cross == Apply("cross", "Vector3", cross(a, b))

MulF64Vector3 ==
    \E k \in (0 - MaxInt)..MaxInt :
        Apply("mul_f64_Vector3", "Vector3", mul_f64_Vector3(Lit(k), a))

MulVector3F64 ==
    \E k \in (0 - MaxInt)..MaxInt :
        Apply("mul_Vector3_f64", "Vector3", mul_Vector3_f64(a, Lit(k)))

Div ==
    \E k \in (0 - MaxInt)..MaxInt :
        Apply("div", "Vector3", div(a, Lit(k)))

MulVector3Vector3 == Apply("mul_Vector3_Vector3", "f64", mul_Vector3_Vector3(a, b))

Add == Apply("add", "Vector3", add(a, b))

Sub == Apply("sub", "Vector3", sub(a, b))

Eq == Apply("eq", "bool", eq(a, b))

Start(A, B) ==
    /\ a \in A
    /\ b \in B
    /\ op = "new"
    /\ ret = Value("Vector3", a)

\* serialization
InitBytes == Start(ByteVectors, {new_zero})
NextBytes == ToBeBytes \/ FromBeBytes
SpecBytes == InitBytes /\ [][NextBytes]_vars

\* products of two vectors and of a scalar and a vector
InitProduct == Start(AVectors, BVectors)
NextProduct == Cross \/ MulVector3Vector3 \/ MulF64Vector3 \/ MulVector3F64 \/ Eq
SpecProduct == InitProduct /\ [][NextProduct]_vars

\* projection and rejection
InitProject == Start(AVectors, BVectors)
NextProject == ProjectOn \/ RejectFrom \/ Add \/ Sub
SpecProject == InitProject /\ [][NextProject]_vars

\* length and normalization
InitNormalize == Start(AVectors, {new_zero})
NextNormalize == Magnitude \/ SqrMagnitude \/ Normalize \/ Div
SpecNormalize == InitNormalize /\ [][NextNormalize]_vars

Init == Start(TestVectors, TestVectors)
Next == NextBytes \/ NextProduct \/ NextProject \/ NextNormalize
Spec == Init /\ [][Next]_vars

-----------------------------------------------------------------------------
(* Properties *)

\* whether a finite f64 is an integer of magnitude below Base, and that integer
IsSmallInt(x) ==
    /\ IsFinite(x)
    /\ \/ IsZero(x)
       \/ /\ Exp(x) < 0
          /\ Exp(x) >= 0 - MantBits
          /\ ~LowNonzero(Sig(x), 0 - Exp(x))
          /\ BitLen(Sig(x)) + Exp(x) <= LimbBits
IntOf(x) ==
    IF IsZero(x) THEN 0
    ELSE (1 - 2 * x.s) * Limb(BShr(Sig(x), 0 - Exp(x)), 1)
IsSmallIntVec(v) == IsSmallInt(v.x) /\ IsSmallInt(v.y) /\ IsSmallInt(v.z)
IsFiniteVec(v) == IsFinite(v.x) /\ IsFinite(v.y) /\ IsFinite(v.z)

FMax(x, y) == IF FLt(x, y) THEN y ELSE x
TwoPow(k) == F64(0, ExpBias + k, <<>>)
Components == {"x", "y", "z"}
Distinct3(v) == v.x # v.y /\ v.y # v.z /\ v.x # v.z

\* the natural whose digits in base 256, most significant first, are bytes[i..j]
RECURSIVE BigEndian(_, _, _)
BigEndian(bytes, i, j) ==
    IF j < i THEN <<>>
    ELSE BAdd(BShl(BigEndian(bytes, i, j - 1), 8), Nat1(bytes[j]))

\* whether bytes[o+1..o+8] hold x: the sign in the top bit of the first byte,
\* then the 11 exponent bits, then the 52 fraction bits, most significant first
HoldsBigEndian(bytes, o, x) ==
    /\ bytes[o + 1] \div 128 = x.s
    /\ (bytes[o + 1] % 128) * 16 + bytes[o + 2] \div 16 = x.e
    /\ BAdd(BShl(Nat1(bytes[o + 2] % 16), 48), BigEndian(bytes, o + 3, o + 8)) = x.m

Four == Lit(4)
EightBytesOfFour == <<64, 16, 0, 0, 0, 0, 0, 0>>

\* C1: decoding the bytes that to_be_bytes returned reproduces the exact bit
\* pattern (sign, exponent, fraction) of each of x, y and z
C1_RoundTrip == op = "from_be_bytes" => ret = Value("Vector3", a)

C1_Witness ==
    /\ op = "from_be_bytes"
    /\ Distinct3(a)
    /\ IsNaN(a.x)
    /\ a.y.s = 1
    /\ ret.val = a

\* C2: to_be_bytes returns 24 bytes: bytes 0..7 hold x, 8..15 hold y, 16..23
\* hold z, each most significant byte first; (4,4,4) gives [64,16,0,0,0,0,0,0] x 3
C2_Layout ==
    op = "to_be_bytes" =>
        /\ Len(ret.val) = 24
        /\ \A i \in 1..Len(ret.val) : ret.val[i] \in 0..255
        /\ HoldsBigEndian(ret.val, 0, a.x)
        /\ HoldsBigEndian(ret.val, 8, a.y)
        /\ HoldsBigEndian(ret.val, 16, a.z)
        /\ (a = Vector3(Four, Four, Four) =>
                ret.val = EightBytesOfFour \o EightBytesOfFour \o EightBytesOfFour)

C2_Witness ==
    /\ op = "to_be_bytes"
    /\ a = Vector3(Four, Four, Four)
    /\ ret.val = EightBytesOfFour \o EightBytesOfFour \o EightBytesOfFour

\* C3: deserialization yields a typed result: a success value wrapping the
\* vector for 24 bytes, a length-mismatch error value for any other length
C3_TypedResult ==
    op = "from_be_bytes" =>
        /\ ret.type = "Result"
        /\ ret.val = IF Len(to_be_bytes(a)) = 24 THEN Value("Ok", a)
                     ELSE Value("Err", "LengthMismatch")

\* C4: normalize takes the square root of dot(v,v) = x*x + y*y + z*z, the
\* squared magnitude of magnitude() and sqr_magnitude(), and scales v by
\* 1/magnitude(v)
C4_NormalizeRadicand ==
    op = "normalize" =>
        /\ normalize_radicand(a) = sqr_magnitude(a)
        /\ ret.val = mul_f64_Vector3(FDiv(Lit(1), magnitude(a)), a)

\* C5: for every nonzero v, magnitude(normalize(v)) rounds to 1.0: the squared
\* magnitude of normalize(v) lies in [0.25, 2.25)
C5_UnitLength ==
    (op = "normalize" /\ ~eq(a, new_zero)) =>
        /\ FEq(FRound(magnitude(ret.val)), Lit(1))
        /\ FLe(Dec(25, 2), sqr_magnitude(ret.val))
        /\ FLt(sqr_magnitude(ret.val), Dec(225, 2))

\* C6 as stated: for every a and nonzero b, project_on(a,b) + reject_from(a,b)
\* == a componentwise
C6_Exact ==
    (op = "reject_from" /\ ~eq(b, new_zero)) =>
        eq(add(project_on(a, b), ret.val), a)

\* C6, amended: for every finite a and nonzero b whose projection and
\* rejection are finite, each component of project_on(a,b) + reject_from(a,b)
\* differs from a's by at most 2^-51 times the larger of that component of a
\* and of project_on(a,b) in magnitude (the roundings of the subtraction and
\* of the addition), not always by nothing; and (4,4,0) projected onto
\* (1,2,0) is (2.4, 4.8, 0)
C6_UpToRounding ==
    /\ (op = "reject_from" /\ ~eq(b, new_zero)) =>
           LET p == project_on(a, b)
               sum == add(p, ret.val)
           IN  (IsFiniteVec(a) /\ IsFiniteVec(p) /\ IsFiniteVec(ret.val)) =>
                   \A c \in Components :
                       FLe(FAbs(FSub(sum[c], a[c])),
                           FMul(TwoPow(-51), FMax(FAbs(a[c]), FAbs(p[c]))))
    /\ (op = "project_on" /\ a = Vector3(Lit(4), Lit(4), Lit(0))
                          /\ b = Vector3(Lit(1), Lit(2), Lit(0))) =>
           eq(ret.val, Vector3(Dec(24, 1), Dec(48, 1), Lit(0)))

\* a state in which the sum is not a: the roundings show
C6_Witness ==
    /\ op = "reject_from"
    /\ ~eq(b, new_zero)
    /\ ~eq(add(project_on(a, b), ret.val), a)

C8_Entrywise ==
    op = "mul_Vector3_Vector3" =>
        /\ ret.type = "Vector3"
        /\ eq(ret.val, Vector3(FMul(a.x, b.x), FMul(a.y, b.y), FMul(a.z, b.z)))

C10_CrossOrthogonal ==
    (op = "cross" /\ IsSmallIntVec(a) /\ IsSmallIntVec(b)) =>
        /\ FEq(mul_Vector3_Vector3(ret.val, a), Zero(0))
        /\ FEq(mul_Vector3_Vector3(ret.val, b), Zero(0))

C10_Witness ==
    /\ op = "cross"
    /\ IsSmallIntVec(a)
    /\ IsSmallIntVec(b)
    /\ \A c \in Components : ~IsZero(ret.val[c])
    /\ FEq(mul_Vector3_Vector3(ret.val, a), Zero(0))
====
